---- MODULE Spec2Model ----
(***************************************************************************)
(* Country quiz: QuizEngine (assets/js/model.js), QuizView                 *)
(* (assets/js/view.js) and the controller (assets/js/controller.js).       *)
(*                                                                         *)
(* A country object is a record [code, name, population, popularity,      *)
(* currencies, languages].  code stands for the identity of the object     *)
(* (every object built by loadFromRestCountries is a fresh one), name may  *)
(* repeat.  A JavaScript value that is either a number or a string (an     *)
(* option's value) is the record [n |-> number, s |-> string]; the string  *)
(* "" is the falsy string.  Array indices are 1-based here and 0-based in  *)
(* the source; correctIndex keeps the source's 0-based value.              *)
(***************************************************************************)
EXTENDS Integers, Sequences, FiniteSets, TLC

VARIABLES
  countries,       \* QuizEngine.countries
  countryPool,     \* QuizEngine.countryPool
  difficulty,      \* QuizEngine.difficulty
  lastPopulate,    \* whether populateCountryPool has run, and the codes of the
                   \* candidateList of its last run
  events,          \* the events the engine's last operation dispatched, in order
  generated,       \* the last call of generateQuestionSet: its arguments and outcome
  pop,             \* one run of generatePopulationOptions: its locals and position
  build,           \* one call of buildQuestionForType: its arguments and outcome
  gameState,       \* controller.js gameState; of each question what the controller reads
  correctStreak,   \* controller.js correctStreak
  wrongStreak,     \* controller.js wrongStreak
  dom,             \* what QuizView holds in the page: flags, texts, counters
  timers,          \* beginQuiz callbacks scheduled with setTimeout and not yet run
  hung,            \* the page is inside a call that never returns
  loaded           \* QuizEngine.init has finished

engineVars == <<countries, countryPool, difficulty, lastPopulate, events>>
callVars == <<generated, pop, build>>
controllerVars == <<gameState, correctStreak, wrongStreak, timers, hung, loaded>>
vars == <<countries, countryPool, difficulty, lastPopulate, events, generated, pop, build,
          gameState, correctStreak, wrongStreak, dom, timers, hung, loaded>>

(***************************************************************************)
(* Sizes.  The source's sizes are REST_COUNTRIES_SAMPLE_SIZE = 10          *)
(* (model.js:9), difficultySettings countries 30 / 100 / 200               *)
(* (model.js:23-25) and the quiz length 10 (controller.js:186).  The model *)
(* keeps their order (quiz length = sample size < easy < medium < hard)    *)
(* at a scale TLC can enumerate.  MaxDesired bounds the desiredCount a     *)
(* direct call of generateQuestionSet is given.                            *)
(***************************************************************************)
SampleSize == 2
QuizLength == 2
EasyCountries == 3
MediumCountries == 4
HardCountries == 5
MaxDesired == 3
\* Math.max(100000, ...) of generatePopulationOptions
MinSynthetic == 100000

Null == "null"
Levels == {"easy", "medium", "hard"}
Types == {"population", "currency", "languages"}

Min(a, b) == IF a < b THEN a ELSE b
Max(a, b) == IF a > b THEN a ELSE b
Range(s) == {s[i] : i \in 1..Len(s)}
\* Array.prototype.slice(0, n)
Slice(s, n) == SubSeq(s, 1, Min(n, Len(s)))
\* Array.prototype.includes
Includes(s, v) == \E i \in 1..Len(s) : s[i] = v
\* splice(index, 1): the array without its element at index
RemoveAt(s, i) == SubSeq(s, 1, i - 1) \o SubSeq(s, i + 1, Len(s))

Num(n) == [n |-> n, s |-> ""]
Str(s) == [n |-> 0, s |-> s]

\* QuizEngine.difficultySettings
difficultySettings ==
  [easy   |-> [countries |-> EasyCountries,   popularOnly |-> TRUE],
   medium |-> [countries |-> MediumCountries, popularOnly |-> FALSE],
   hard   |-> [countries |-> HardCountries,   popularOnly |-> FALSE]]

\* The names difficultySettings, an object literal, inherits from
\* Object.prototype: difficultySettings[name] is a function or an object for
\* each of them, a truthy value without countries and without popularOnly.
ObjectPrototype ==
  {"constructor", "hasOwnProperty", "isPrototypeOf", "propertyIsEnumerable",
   "toLocaleString", "toString", "valueOf", "__proto__",
   "__defineGetter__", "__defineSetter__", "__lookupGetter__", "__lookupSetter__"}

\* !!difficultySettings[level]
HasSetting(level) == level \in DOMAIN difficultySettings \/ level \in ObjectPrototype

\* difficultySettings[difficulty] || difficultySettings.easy, as
\* populateCountryPool reads it.  Of an inherited value popularOnly is undefined
\* and Math.min(undefined, length) is NaN: slice(0, NaN) takes no element.
Settings(level) ==
  IF level \in DOMAIN difficultySettings THEN difficultySettings[level]
  ELSE IF level \in ObjectPrototype THEN [countries |-> 0, popularOnly |-> FALSE]
  ELSE difficultySettings.easy

(***************************************************************************)
(* shuffleArray: Fisher-Yates, i from length-1 down to 1, j any index in   *)
(* 0..i (Math.random), swap.  The set of arrays it can return.             *)
(***************************************************************************)
Swap(s, i, j) == [s EXCEPT ![i] = s[j], ![j] = s[i]]

\* The bug of assigning without swapping: shuffled[i] = shuffled[j].
SwapStepLossy(s, i, j) == [s EXCEPT ![i] = s[j]]

SwapStep(s, i, j) == Swap(s, i, j)

RECURSIVE ShuffleFrom(_, _)
ShuffleFrom(s, i) ==
  IF i <= 1 THEN {s}
  ELSE UNION {ShuffleFrom(SwapStep(s, i, j), i - 1) : j \in 1..i}

shuffleArray(array) == ShuffleFrom(array, Len(array))

(***************************************************************************)
(* [...countries].sort((a, b) => b.popularity - a.popularity): a stable    *)
(* sort, highest popularity first.                                         *)
(***************************************************************************)
RECURSIVE InsertByPopularity(_, _)
InsertByPopularity(sorted, c) ==
  IF sorted = <<>> THEN <<c>>
  ELSE IF Head(sorted).popularity >= c.popularity
       THEN <<Head(sorted)>> \o InsertByPopularity(Tail(sorted), c)
       ELSE <<c>> \o sorted

RECURSIVE SortByPopularity(_)
SortByPopularity(s) ==
  IF s = <<>> THEN <<>>
  ELSE InsertByPopularity(SortByPopularity(SubSeq(s, 1, Len(s) - 1)), s[Len(s)])

\* The bug of sampling at random whatever the setting's popularOnly.
CandidateListsAllShuffled(cs, level) ==
  {Slice(sh, Min(Settings(level).countries, Len(cs))) : sh \in shuffleArray(cs)}

\* The candidate lists populateCountryPool can compute for a non-empty countries.
CandidateLists(cs, level) ==
  LET settings == Settings(level) IN
  IF settings.popularOnly
  THEN {Slice(SortByPopularity(cs), settings.countries)}
  ELSE {Slice(sh, Min(settings.countries, Len(cs))) : sh \in shuffleArray(cs)}

Codes(cs) == {cs[i].code : i \in 1..Len(cs)}

\* populateCountryPool: the pairs (candidateList, countryPool) it can leave.
PoolResults(cs, level) ==
  IF Len(cs) = 0 THEN {[candidates |-> {}, pool |-> <<>>]}
  ELSE UNION {
         {[candidates |-> Codes(cand), pool |-> Slice(sh, SampleSize)] : sh \in shuffleArray(cand)}
         : cand \in CandidateLists(cs, level)}

(***************************************************************************)
(* Question generation.                                                    *)
(***************************************************************************)
Truthy(item) == item # ""

hasDataForType(country, type) ==
  CASE type = "population" -> country.population > 0
    [] type = "currency"   -> Len(country.currencies) > 0 /\ Truthy(country.currencies[1])
    [] type = "languages"  -> Len(country.languages) > 0 /\ Truthy(country.languages[1])
    [] OTHER -> FALSE

\* uniqueByName: the first country of every name, nameless ones dropped
RECURSIVE UniqueFrom(_, _)
UniqueFrom(s, seen) ==
  IF s = <<>> THEN <<>>
  ELSE IF ~Truthy(Head(s).name) \/ Head(s).name \in seen THEN UniqueFrom(Tail(s), seen)
  ELSE <<Head(s)>> \o UniqueFrom(Tail(s), seen \cup {Head(s).name})

uniqueByName(cs) == UniqueFrom(cs, {})

\* getCountriesForType: the arrays it can return (the base pool is random only
\* when countryPool is empty)
getCountriesForType(this, type, desiredCount) ==
  LET HasData(c) == hasDataForType(c, type)
      basePools == IF Len(this.countryPool) > 0 THEN {this.countryPool}
                   ELSE {Slice(sh, Max(desiredCount, SampleSize)) : sh \in shuffleArray(this.countries)}
      extended == SelectSeq(this.countries, HasData)
      Result(basePool) ==
        LET filteredBase == SelectSeq(basePool, HasData) IN
        IF Len(filteredBase) > 0 THEN uniqueByName(filteredBase)
        ELSE uniqueByName(filteredBase \o extended)
  IN {Result(basePool) : basePool \in basePools}

\* country[key] for key 'currencies' or 'languages'
Items(country, key) == IF key = "currencies" THEN country.currencies ELSE country.languages

\* the inner forEach of collectUniqueValues: falsy and seen items are skipped
RECURSIVE AddItems(_, _)
AddItems(values, items) ==
  IF items = <<>> THEN values
  ELSE IF ~Truthy(Head(items)) \/ Includes(values, Head(items)) THEN AddItems(values, Tail(items))
  ELSE AddItems(Append(values, Head(items)), Tail(items))

RECURSIVE CollectFrom(_, _, _, _)
CollectFrom(pool, key, excludeCountryName, values) ==
  IF pool = <<>> THEN values
  ELSE IF Head(pool).name = excludeCountryName
       THEN CollectFrom(Tail(pool), key, excludeCountryName, values)
       ELSE CollectFrom(Tail(pool), key, excludeCountryName, AddItems(values, Items(Head(pool), key)))

collectUniqueValues(pool, key, excludeCountryName) == CollectFrom(pool, key, excludeCountryName, <<>>)

\* Array.from(new Set(array)) and filter(indexOf === index): first occurrences
RECURSIVE Dedupe(_, _)
Dedupe(s, acc) ==
  IF s = <<>> THEN acc
  ELSE Dedupe(Tail(s), IF Includes(acc, Head(s)) THEN acc ELSE Append(acc, Head(s)))

\* findIndex(option => option.value === v), 0-based, -1 when there is none
FindIndex(options, v) ==
  IF \E i \in 1..Len(options) : options[i].value = v
  THEN (CHOOSE i \in 1..Len(options) :
          options[i].value = v /\ \A k \in 1..(i - 1) : options[k].value # v) - 1
  ELSE -1

\* A builder's return value null, and the call that never returns.
NullQ == [type |-> Null, country |-> "", options |-> <<>>, correctIndex |-> -1,
          correctAnswerLabel |-> Str("")]
HangQ == [type |-> "hang", country |-> "", options |-> <<>>, correctIndex |-> -1,
          correctAnswerLabel |-> Str("")]

(***************************************************************************)
(* Currency and language options.  The while loop draws a random index,    *)
(* splices the candidate out and pushes it; then the built-in list fills   *)
(* up to three distractors.                                                *)
(***************************************************************************)
fallbackCurrencies == <<"Euro", "United States dollar", "Yen", "Pound sterling", "Rupee">>
fallbackLanguages ==
  <<"English", "Spanish", "French", "Arabic", "Hindi", "Portuguese", "Russian", "Chinese">>

RECURSIVE PickLabels(_, _)
PickLabels(candidates, distractors) ==
  IF Len(candidates) > 0 /\ Len(distractors) < 3
  THEN UNION {PickLabels(RemoveAt(candidates, index),
                         IF ~Includes(distractors, candidates[index])
                         THEN Append(distractors, candidates[index]) ELSE distractors)
              : index \in 1..Len(candidates)}
  ELSE {distractors}

RECURSIVE FillFromFallback(_, _, _)
FillFromFallback(distractors, fallback, correct) ==
  IF fallback = <<>> \/ Len(distractors) >= 3 THEN distractors
  ELSE FillFromFallback(
         IF Head(fallback) # correct /\ ~Includes(distractors, Head(fallback))
         THEN Append(distractors, Head(fallback)) ELSE distractors,
         Tail(fallback), correct)

\* generateCurrencyOptions / generateLanguageOptions: the arrays they can return
GenerateLabelOptions(correct, pool, countryName, key, fallback) ==
  LET NotCorrect(v) == v # correct
      candidates == SelectSeq(collectUniqueValues(pool, key, countryName), NotCorrect)
  IN {Slice(<<correct>> \o FillFromFallback(d, fallback, correct), 4)
      : d \in PickLabels(candidates, <<>>)}

\* The bug of leaving the built-in list out.
generateCurrencyOptionsNoFallback(correctCurrency, pool, countryName) ==
  GenerateLabelOptions(correctCurrency, pool, countryName, "currencies", <<>>)

generateCurrencyOptions(correctCurrency, pool, countryName) ==
  GenerateLabelOptions(correctCurrency, pool, countryName, "currencies", fallbackCurrencies)

generateLanguageOptions(correctLanguage, pool, countryName) ==
  GenerateLabelOptions(correctLanguage, pool, countryName, "languages", fallbackLanguages)

\* The bug of reading correctIndex before the options are shuffled.
LabelQuestionStaleIndex(type, country, correct, optionLabels) ==
  LET uniqueOptions == Dedupe(SelectSeq(optionLabels, Truthy), <<>>) IN
  IF ~Includes(uniqueOptions, correct) \/ Len(uniqueOptions) < 4 THEN {NullQ}
  ELSE LET four == Slice(uniqueOptions, 4)
           optionObjects == [i \in 1..Len(four) |-> [label |-> Str(four[i]), value |-> Str(four[i])]]
       IN {[type |-> type, country |-> country.name, options |-> shuffledOptions,
            correctIndex |-> FindIndex(optionObjects, Str(correct)),
            correctAnswerLabel |-> Str(correct)]
           : shuffledOptions \in shuffleArray(optionObjects)}

\* The tail of buildCurrencyQuestion / buildLanguagesQuestion from the option labels on
LabelQuestion(type, country, correct, optionLabels) ==
  LET uniqueOptions == Dedupe(SelectSeq(optionLabels, Truthy), <<>>) IN
  IF ~Includes(uniqueOptions, correct) \/ Len(uniqueOptions) < 4 THEN {NullQ}
  ELSE LET four == Slice(uniqueOptions, 4)
           optionObjects == [i \in 1..Len(four) |-> [label |-> Str(four[i]), value |-> Str(four[i])]]
       IN {IF FindIndex(shuffledOptions, Str(correct)) = -1 THEN NullQ
           ELSE [type |-> type, country |-> country.name, options |-> shuffledOptions,
                 correctIndex |-> FindIndex(shuffledOptions, Str(correct)),
                 correctAnswerLabel |-> Str(correct)]
           : shuffledOptions \in shuffleArray(optionObjects)}

buildCurrencyQuestion(country, pool) ==
  IF ~hasDataForType(country, "currency") THEN {NullQ}
  ELSE UNION {LabelQuestion("currency", country, country.currencies[1], optionLabels)
              : optionLabels \in generateCurrencyOptions(country.currencies[1], pool, country.name)}

buildLanguagesQuestion(country, pool) ==
  IF ~hasDataForType(country, "languages") THEN {NullQ}
  ELSE UNION {LabelQuestion("languages", country, country.languages[1], optionLabels)
              : optionLabels \in generateLanguageOptions(country.languages[1], pool, country.name)}

(***************************************************************************)
(* Population options.  The multipliers 0.55, 0.75, 1.2, 1.4, 1.8 are kept *)
(* in hundredths; Math.round rounds half up.                               *)
(***************************************************************************)
fallbackMultipliers == <<55, 75, 120, 140, 180>>

\* Math.round(correctValue * multiplier)
RoundProduct(correctValue, hundredths) == (2 * correctValue * hundredths + 100) \div 200

\* the candidate of one pass of the second while loop, multiplierIndex 0-based
SyntheticCandidate(correctValue, multiplierIndex) ==
  Max(MinSynthetic,
      RoundProduct(correctValue,
                   fallbackMultipliers[(multiplierIndex % Len(fallbackMultipliers)) + 1]))

\* pool.filter(...).map(item => item.population), then Array.from(new Set(...))
PopulationCandidates(pool, countryName) ==
  LET Usable(item) == item.name # countryName /\ hasDataForType(item, "population")
      kept == SelectSeq(pool, Usable)
  IN Dedupe([i \in 1..Len(kept) |-> kept[i].population], <<>>)

\* the first while loop: the distractor arrays it can leave
RECURSIVE PickPopulations(_, _, _)
PickPopulations(uniqueCandidates, distractors, correctValue) ==
  IF Len(uniqueCandidates) > 0 /\ Len(distractors) < 3
  THEN UNION {PickPopulations(RemoveAt(uniqueCandidates, index),
                              IF uniqueCandidates[index] # correctValue
                              THEN Append(distractors, uniqueCandidates[index]) ELSE distractors,
                              correctValue)
              : index \in 1..Len(uniqueCandidates)}
  ELSE {distractors}

\* The second while loop.  The loop's state is (distractors, multiplierIndex mod 5);
\* after as many passes without a push as there are multipliers it is back in a
\* state it was in, and never leaves: the result is then Diverges.
Diverges == <<-1>>

RECURSIVE SyntheticFill(_, _, _, _)
SyntheticFill(correctValue, distractors, multiplierIndex, idlePasses) ==
  IF Len(distractors) >= 3 THEN distractors
  ELSE IF idlePasses >= Len(fallbackMultipliers) THEN Diverges
  ELSE LET candidate == SyntheticCandidate(correctValue, multiplierIndex) IN
       IF ~Includes(<<correctValue>> \o distractors, candidate)
       THEN SyntheticFill(correctValue, Append(distractors, candidate), multiplierIndex + 1, 0)
       ELSE SyntheticFill(correctValue, distractors, multiplierIndex + 1, idlePasses + 1)

\* generatePopulationOptions: the arrays it can return, Diverges when it never returns
generatePopulationOptions(correctValue, pool, countryName) ==
  {LET filled == SyntheticFill(correctValue, d, 0, 0) IN
   IF filled = Diverges THEN Diverges ELSE <<correctValue>> \o filled
   : d \in PickPopulations(PopulationCandidates(pool, countryName), <<>>, correctValue)}

\* formatPopulation: value.toLocaleString() followed by ' people'
formatPopulation(value) == [n |-> value, s |-> " people"]

buildPopulationQuestion(country, pool) ==
  IF ~hasDataForType(country, "population") THEN {NullQ}
  ELSE LET correctValue == country.population IN
    UNION {
      IF rawOptions = Diverges THEN {HangQ}
      ELSE LET uniqueOptions == Slice(Dedupe(rawOptions, <<>>), 4) IN
        IF ~Includes(uniqueOptions, correctValue) \/ Len(uniqueOptions) < 4 THEN {NullQ}
        ELSE LET optionObjects ==
                   [i \in 1..Len(uniqueOptions) |->
                      [label |-> formatPopulation(uniqueOptions[i]), value |-> Num(uniqueOptions[i])]]
             IN {IF FindIndex(shuffledOptions, Num(correctValue)) = -1 THEN NullQ
                 ELSE [type |-> "population", country |-> country.name,
                       options |-> shuffledOptions,
                       correctIndex |-> FindIndex(shuffledOptions, Num(correctValue)),
                       correctAnswerLabel |-> formatPopulation(correctValue)]
                 : shuffledOptions \in shuffleArray(optionObjects)}
      : rawOptions \in generatePopulationOptions(correctValue, pool, country.name)}

buildQuestionForType(type, country, pool) ==
  CASE type = "population" -> buildPopulationQuestion(country, pool)
    [] type = "currency"   -> buildCurrencyQuestion(country, pool)
    [] type = "languages"  -> buildLanguagesQuestion(country, pool)
    [] OTHER -> {NullQ}

(***************************************************************************)
(* generateQuestionSet.  An outcome is [questions, tried, hung]: hung when *)
(* a builder never returned, and then the call never returns either.       *)
(* built[c] is buildQuestionForType(type, c, optionPool), computed once    *)
(* for every country of the call.                                          *)
(***************************************************************************)
RECURSIVE PrimaryLoop(_, _, _, _, _, _)
PrimaryLoop(built, shuffledAvailable, desiredCount, i, questions, tried) ==
  IF i > Len(shuffledAvailable) \/ Len(questions) >= desiredCount
  THEN {[questions |-> questions, tried |-> tried, hung |-> FALSE]}
  ELSE LET country == shuffledAvailable[i] IN
    IF country.name \in tried
    THEN PrimaryLoop(built, shuffledAvailable, desiredCount, i + 1, questions, tried)
    ELSE UNION {
      IF q.type = HangQ.type THEN {[questions |-> questions, tried |-> tried \cup {country.name}, hung |-> TRUE]}
      ELSE PrimaryLoop(built, shuffledAvailable, desiredCount, i + 1,
                       IF q.type # NullQ.type THEN Append(questions, q) ELSE questions,
                       tried \cup {country.name})
      : q \in built[country]}

\* The fallback loop tests hasDataForType, never tried.
RECURSIVE FallbackLoop(_, _, _, _, _, _, _)
FallbackLoop(type, built, fallbackPool, desiredCount, i, questions, tried) ==
  IF i > Len(fallbackPool) \/ Len(questions) >= desiredCount
  THEN {[questions |-> questions, tried |-> tried, hung |-> FALSE]}
  ELSE LET country == fallbackPool[i] IN
    IF ~hasDataForType(country, type)
    THEN FallbackLoop(type, built, fallbackPool, desiredCount, i + 1, questions, tried)
    ELSE UNION {
      IF q.type = HangQ.type THEN {[questions |-> questions, tried |-> tried, hung |-> TRUE]}
      ELSE IF q.type # NullQ.type
           THEN FallbackLoop(type, built, fallbackPool, desiredCount, i + 1,
                             Append(questions, q), tried \cup {country.name})
           ELSE FallbackLoop(type, built, fallbackPool, desiredCount, i + 1, questions, tried)
      : q \in built[country]}

\* shuffleArray(this.countries).filter(c => !tried.has(c.name))
FallbackPools(this, tried) ==
  LET Untried(c) == c.name \notin tried IN
  {SelectSeq(sh, Untried) : sh \in shuffleArray(this.countries)}

(***************************************************************************)
(* QuizView: what it keeps in the page.  A control raises its event only   *)
(* when it is enabled and shown; the flags below are the ones the source    *)
(* sets.  The page starts with every control enabled, the start and next   *)
(* buttons hidden and every country item reading 'Waiting...'.             *)
(***************************************************************************)
Waiting == "Waiting..."

\* one list item per country of a full pool
ListItems == SampleSize

InitialDom ==
  [selectorDisabled |-> FALSE, selectorValue |-> "easy", modeDisabled |-> FALSE,
   countryDisabled |-> FALSE, itemTexts |-> [i \in 1..ListItems |-> Waiting],
   startHidden |-> TRUE, startDisabled |-> FALSE, startVisibility |-> "", startText |-> "Start Quiz",
   nextHidden |-> TRUE, nextDisabled |-> TRUE, answersDisabled |-> TRUE,
   status |-> "", score |-> 0, incorrect |-> 0]

updateLeftPaneCountryList(d, pool) ==
  [d EXCEPT !.itemTexts = [i \in 1..ListItems |-> IF i <= Len(pool) THEN pool[i].name ELSE Waiting]]

updateStatusMessage(d, message) == [d EXCEPT !.status = message]

toggleAnswerButtons(d, disable) == [d EXCEPT !.answersDisabled = disable]

hideQuizRowsUntilStart(d) ==
  [toggleAnswerButtons(d, TRUE) EXCEPT !.nextHidden = TRUE, !.nextDisabled = TRUE]

resetRightPaneBeforeQuiz(d) == [hideQuizRowsUntilStart(d) EXCEPT !.startHidden = TRUE]

setupRightPaneGameArea(d) ==
  [hideQuizRowsUntilStart(d) EXCEPT !.startHidden = FALSE, !.startDisabled = FALSE,
                                    !.startVisibility = "visible", !.startText = "Start Quiz"]

restoreStartButton(d) ==
  [d EXCEPT !.startHidden = FALSE, !.startDisabled = FALSE,
            !.startVisibility = "visible", !.startText = "Start Quiz"]

\* The bug of leaving the mode buttons enabled.
disableGameControlsKeepModes(d) ==
  [d EXCEPT !.selectorDisabled = TRUE, !.countryDisabled = TRUE,
            !.startHidden = TRUE, !.startVisibility = "hidden", !.startDisabled = TRUE]

\* The bug of leaving the start button in use while the questions are prepared.
disableGameControlsKeepStart(d) ==
  [d EXCEPT !.selectorDisabled = TRUE, !.modeDisabled = TRUE, !.countryDisabled = TRUE]

disableGameControls(d) ==
  [d EXCEPT !.selectorDisabled = TRUE, !.modeDisabled = TRUE, !.countryDisabled = TRUE,
            !.startHidden = TRUE, !.startVisibility = "hidden", !.startDisabled = TRUE]

enableGameControls(d) ==
  [d EXCEPT !.selectorDisabled = FALSE, !.modeDisabled = FALSE, !.countryDisabled = FALSE,
            !.startHidden = FALSE, !.startVisibility = "", !.startDisabled = FALSE]

\* every question has four options, so every answer button is enabled
renderQuestion(d) ==
  [d EXCEPT !.answersDisabled = FALSE, !.nextHidden = TRUE, !.nextDisabled = TRUE]

setScoreValue(d, elementId, value) ==
  IF elementId = "score" THEN [d EXCEPT !.score = value] ELSE [d EXCEPT !.incorrect = value]

incrementScore(d) == setScoreValue(d, "score", d.score + 1)

incrementWrongAnswer(d) == setScoreValue(d, "incorrect", d.incorrect + 1)

\* the 'quiz:difficulty-changed' listener of setupDifficultySelector; a select
\* takes the value of one of its options, and "" when no option has the value
SyncSelector(d, level) == [d EXCEPT !.selectorValue = IF level \in Levels THEN level ELSE ""]

StartClickable == ~dom.startHidden /\ ~dom.startDisabled /\ dom.startVisibility # "hidden"
NextClickable == ~dom.nextHidden /\ ~dom.nextDisabled
AnswersClickable == ~dom.answersDisabled

(***************************************************************************)
(* generateQuestionSet and its callers.  The model has two: the call of    *)
(* one question set that is kept whole in generated, and the callback of   *)
(* beginQuiz, which loads into gameState what the controller reads of      *)
(* each question.                                                          *)
(***************************************************************************)
\* what the controller reads of a question
Loaded(q) == [type |-> q.type, country |-> q.country, correctIndex |-> q.correctIndex,
              correctAnswerLabel |-> q.correctAnswerLabel]

\* what the caller keeps of a question
Keep(caller, q) == IF caller = "beginQuiz" THEN Loaded(q) ELSE q

\* the call kept in generated returns out, or never returns
SetGenerated(out) ==
  generated' = [generated EXCEPT !.status = IF out.hung THEN "hung" ELSE "returned",
                                 !.questions = IF out.hung THEN <<>> ELSE out.questions]

\* the outcome of the callback's call of generateQuestionSet
TimerReturn(out) ==
  IF out.hung
  THEN /\ hung' = TRUE
       /\ UNCHANGED <<gameState, dom, timers>>
  ELSE /\ timers' = timers - 1
       /\ UNCHANGED hung
       /\ IF Len(out.questions) = 0
          THEN /\ dom' = restoreStartButton(updateStatusMessage(dom,
                           "Not enough data to start this quiz. Try another category."))
               /\ UNCHANGED gameState
          ELSE /\ gameState' = [gameState EXCEPT !.questions = out.questions,
                                                 !.totalQuestions = Len(out.questions),
                                                 !.currentQuestionIndex = 0,
                                                 !.hasAnswered = FALSE, !.isComplete = FALSE]
               /\ dom' = renderQuestion(
                           updateStatusMessage(
                             [toggleAnswerButtons(
                                setScoreValue(setScoreValue(dom, "score", 0), "incorrect", 0),
                                FALSE) EXCEPT !.startHidden = TRUE],
                             "Answer the quiz questions displayed on the right pane."))

\* the call returns out = [questions, hung] to its caller; hung: it never returns
Return(caller, out) ==
  CASE caller = "generated" -> SetGenerated(out)
    [] caller = "beginQuiz" -> TimerReturn(out)

\* generateQuestionSet(type, desiredCount) of the engine this = [countries,
\* countryPool], called by caller
generateQuestionSet(this, type, desiredCount, caller) ==
  \E availableCountries \in getCountriesForType(this, type, desiredCount) :
    IF Len(availableCountries) = 0 THEN Return(caller, [questions |-> <<>>, hung |-> FALSE])
    ELSE LET optionPool == uniqueByName(availableCountries \o this.countries)
             built == [c \in Range(this.countries) |->
                         {Keep(caller, q) : q \in buildQuestionForType(type, c, optionPool)}]
      IN \E shuffledAvailable \in shuffleArray(availableCountries) :
         \E primary \in PrimaryLoop(built, shuffledAvailable, desiredCount, 1, <<>>, {}) :
           IF primary.hung \/ Len(primary.questions) >= desiredCount
           THEN Return(caller, [questions |-> Slice(primary.questions, desiredCount),
                                hung |-> primary.hung])
           ELSE \E fallbackPool \in FallbackPools(this, primary.tried) :
                \E out \in FallbackLoop(type, built, fallbackPool, desiredCount, 1,
                                        primary.questions, primary.tried) :
                  Return(caller, [questions |-> Slice(out.questions, desiredCount),
                                  hung |-> out.hung])

\* the engine as generateQuestionSet reads it
Engine == [countries |-> countries, countryPool |-> countryPool]

(***************************************************************************)
(* Data sets: what loadFromRestCountries can leave in countries.  Every    *)
(* loaded country has a name and a non-zero population, and its popularity *)
(* is its population (model.js:54-67).                                     *)
(***************************************************************************)
Country(code, name, population, currencies, languages) ==
  [code |-> code, name |-> name, population |-> population, popularity |-> population,
   currencies |-> currencies, languages |-> languages]

\* Two countries of one name outside the most popular ones, a country with two
\* currencies, countries without currencies or languages.
CongoWorld ==
  <<Country("CHL", "Chile", 900000, <<"Chilean peso">>, <<"Spanish">>),
    Country("ATA", "Antarctica", 800000, <<>>, <<>>),
    Country("COG", "Congo", 600000, <<"Central African CFA franc", "United States dollar">>,
            <<"French", "Kikongo">>),
    Country("COD", "Congo", 500000, <<"Congolese franc">>, <<"Swahili">>)>>

\* Enough languages abroad to choose from; no currencies at all.
AndesWorld ==
  <<Country("GBR", "United Kingdom", 500000, <<>>, <<"English", "French">>),
    Country("BOL", "Bolivia", 120000, <<>>, <<"Spanish", "Quechua", "Aymara", "Guarani">>)>>

\* Populations too small for three synthetic distractors.
SmallWorld ==
  <<Country("VAT", "Vatican City", 800, <<"Euro">>, <<"Italian", "">>),
    Country("NRU", "Nauru", 60000, <<"Australian dollar", "">>, <<"English">>)>>

\* Two countries of the same population.
TwinWorld ==
  <<Country("AAA", "Alpha", 500000, <<"Euro">>, <<"English">>),
    Country("BBB", "Beta", 500000, <<"Yen">>, <<"Hindi">>)>>

\* More countries than the hard setting takes, two of them equally popular.
SixWorld ==
  <<Country("C1", "One", 100, <<>>, <<>>), Country("C2", "Two", 300, <<>>, <<>>),
    Country("C3", "Three", 300, <<>>, <<>>), Country("C4", "Four", 600, <<>>, <<>>),
    Country("C5", "Five", 500, <<>>, <<>>), Country("C6", "Six", 300, <<>>, <<>>)>>

\* One country: a population below the synthetic minimum and no other population.
LoneWorld ==
  <<Country("VAT", "Vatican City", 800, <<"Euro">>, <<"Italian">>)>>

\* One country with a currency, none with a language.
PairWorld ==
  <<Country("FRA", "France", 500000, <<"Euro">>, <<>>),
    Country("NPL", "Nepal", 120000, <<>>, <<>>)>>

PoolWorlds == {<<>>, TwinWorld, SixWorld}

\* what loadFromRestCountries can leave in countries for the page
PageWorlds == {<<>>, LoneWorld, PairWorld}

\* what it can leave for the page whose listeners are given any event
EventWorlds == {<<>>, LoneWorld}

GenInputs ==
  {[world |-> CongoWorld, type |-> "currency"]}
  \cup {[world |-> w, type |-> t] : w \in {AndesWorld, SmallWorld, TwinWorld}, t \in Types}

Worlds == PoolWorlds \cup PageWorlds \cup {CongoWorld} \cup {in.world : in \in GenInputs}

\* the values setDifficulty can leave in difficulty
Difficulties == Levels \cup ObjectPrototype

\* PoolResults of every data set and difficulty, computed once.
PoolTable == [w \in Worlds |-> [level \in Difficulties |-> PoolResults(w, level)]]

(***************************************************************************)
(* QuizEngine operations.  Each dispatches its event to the view.          *)
(***************************************************************************)
IdleGenerated == [status |-> "idle", type |-> Null, desiredCount |-> 0, questions |-> <<>>]
IdlePop == [pc |-> "idle", correctValue |-> 0, uniqueCandidates |-> <<>>, distractors |-> <<>>,
            multiplierIndex |-> 0, result |-> <<>>]
IdleBuild == [status |-> "idle", type |-> Null, country |-> Null, optionPool |-> <<>>,
              question |-> NullQ]
NeverPopulated == [ran |-> FALSE, candidates |-> {}]

InitialGameState ==
  [currentGameType |-> Null, selectedCountryName |-> Null, questions |-> <<>>,
   currentQuestionIndex |-> 0, hasAnswered |-> FALSE, totalQuestions |-> 0, isComplete |-> FALSE]

\* the controller and the page before any event
InitPage ==
  /\ gameState = InitialGameState
  /\ correctStreak = 0
  /\ wrongStreak = 0
  /\ dom = InitialDom
  /\ timers = 0
  /\ hung = FALSE

\* the CustomEvents the engine dispatches on document, with their detail
QuizReady(n) ==
  [type |-> "quiz:ready", loaded |-> n, pool |-> <<>>, difficulty |-> Null]
QuizPoolUpdated(pool) ==
  [type |-> "quiz:pool-updated", loaded |-> 0, pool |-> pool, difficulty |-> Null]
QuizDifficultyChanged(level) ==
  [type |-> "quiz:difficulty-changed", loaded |-> 0, pool |-> <<>>, difficulty |-> level]

\* what init dispatches: populateCountryPool's event, then its own two
InitEvents(world, pool) ==
  <<QuizPoolUpdated(pool), QuizReady(Len(world)), QuizPoolUpdated(pool)>>

\* populateCountryPool at difficulty level.  d is the page before its event,
\* later the events the engine dispatches after it in the same operation.
populateCountryPool(level, d, later) ==
  \E r \in PoolTable[countries][level] :
    /\ countryPool' = r.pool
    /\ lastPopulate' = [ran |-> TRUE, candidates |-> r.candidates]
    /\ events' = <<QuizPoolUpdated(r.pool)>> \o later
    /\ dom' = updateLeftPaneCountryList(d, r.pool)

\* The bug of reloading the pool whatever reload says.
setDifficultyAlwaysReloads(level, reload, d) ==
  IF level = Null \/ ~Truthy(level) \/ ~HasSetting(level)
  THEN /\ events' = <<>>
       /\ dom' = d
       /\ UNCHANGED <<difficulty, countryPool, lastPopulate>>
  ELSE /\ difficulty' = level
       /\ populateCountryPool(level, SyncSelector(d, level), <<QuizDifficultyChanged(level)>>)

\* setDifficulty(level, reload).  d is the page before it, with what its caller
\* writes there after it returns (the listeners of its events write other fields).
setDifficulty(level, reload, d) ==
  IF level = Null \/ ~Truthy(level) \/ ~HasSetting(level)
  THEN /\ events' = <<>>
       /\ dom' = d
       /\ UNCHANGED <<difficulty, countryPool, lastPopulate>>
  ELSE /\ difficulty' = level
       /\ IF reload
          THEN populateCountryPool(level, SyncSelector(d, level), <<QuizDifficultyChanged(level)>>)
          ELSE /\ events' = <<QuizDifficultyChanged(level)>>
               /\ dom' = SyncSelector(d, level)
               /\ UNCHANGED <<countryPool, lastPopulate>>

\* the level arguments of a direct call of setDifficulty: the three levels, a
\* missing one, the empty string, a name that is no setting, inherited names
LevelArguments == Levels \cup {Null, "", "expert", "constructor", "toString"}

CallPopulateCountryPool ==
  /\ populateCountryPool(difficulty, dom, <<>>)
  /\ UNCHANGED <<countries, difficulty, callVars, controllerVars>>

CallSetDifficulty(level, reload) ==
  /\ setDifficulty(level, reload, dom)
  /\ UNCHANGED <<countries, callVars, controllerVars>>

InitPool ==
  /\ countries \in PoolWorlds
  /\ countryPool = <<>>
  /\ difficulty = "easy"
  /\ lastPopulate = NeverPopulated
  /\ events = <<>>
  /\ generated = IdleGenerated
  /\ pop = IdlePop
  /\ build = IdleBuild
  /\ InitPage
  /\ loaded = TRUE

NextPool ==
  \/ CallPopulateCountryPool
  \/ \E level \in LevelArguments, reload \in BOOLEAN : CallSetDifficulty(level, reload)

SpecPool == InitPool /\ [][NextPool]_vars

Generate ==
  /\ generated.status = "idle"
  /\ generateQuestionSet(Engine, generated.type, generated.desiredCount, "generated")
  /\ UNCHANGED <<engineVars, pop, build, controllerVars, dom>>

\* The state after init(): countries loaded, the pool populated at difficulty 'easy';
\* then one call of generateQuestionSet.
InitGen ==
  /\ \E in \in GenInputs, desiredCount \in SampleSize..MaxDesired :
       /\ countries = in.world
       /\ generated = [status |-> "idle", type |-> in.type, desiredCount |-> desiredCount,
                       questions |-> <<>>]
  /\ difficulty = "easy"
  /\ \E r \in PoolTable[countries]["easy"] :
       /\ countryPool = r.pool
       /\ lastPopulate = [ran |-> TRUE, candidates |-> r.candidates]
       /\ events = InitEvents(countries, r.pool)
       /\ dom = updateLeftPaneCountryList(InitialDom, r.pool)
  /\ pop = IdlePop
  /\ build = IdleBuild
  /\ gameState = InitialGameState
  /\ correctStreak = 0
  /\ wrongStreak = 0
  /\ timers = 0
  /\ hung = FALSE
  /\ loaded = TRUE

NextGen == Generate

SpecGen == InitGen /\ [][NextGen]_vars

(***************************************************************************)
(* One call buildQuestionForType(type, country, optionPool).               *)
(***************************************************************************)
BuildWorlds == {CongoWorld, AndesWorld, SmallWorld, TwinWorld}
BuildPools == {<<>>} \cup {uniqueByName(w) : w \in BuildWorlds}

InitBuild ==
  /\ countries \in BuildWorlds
  /\ countryPool = <<>>
  /\ difficulty = "easy"
  /\ lastPopulate = NeverPopulated
  /\ events = <<>>
  /\ generated = IdleGenerated
  /\ pop = IdlePop
  /\ \E type \in Types, i \in 1..Len(countries), optionPool \in BuildPools :
       build = [status |-> "idle", type |-> type, country |-> countries[i],
                optionPool |-> optionPool, question |-> NullQ]
  /\ InitPage
  /\ loaded = TRUE

Build ==
  /\ build.status = "idle"
  /\ \E q \in buildQuestionForType(build.type, build.country, build.optionPool) :
       build' = [build EXCEPT !.status = IF q = HangQ THEN "hung" ELSE "returned",
                              !.question = q]
  /\ UNCHANGED <<engineVars, generated, pop, controllerVars, dom>>

NextBuild == Build

SpecBuild == InitBuild /\ [][NextBuild]_vars

(***************************************************************************)
(* generatePopulationOptions(correctValue, pool, countryName), one loop    *)
(* pass at a time.  multiplierIndex is kept modulo the number of           *)
(* multipliers: the source reads nothing else of it (model.js:254).        *)
(***************************************************************************)
\* correctValue: positive integers below, at and above the synthetic minimum
PopValues == {800, 60000, 100000, 500000}
PopPools == {<<>>, SmallWorld, TwinWorld, SixWorld}
PopNames == {"Nauru", "Alpha", "One", "Nowhere"}

\* lines 243-245: the locals before the first loop
InitPop ==
  /\ countries \in PopPools
  /\ countryPool = <<>>
  /\ difficulty = "easy"
  /\ lastPopulate = NeverPopulated
  /\ events = <<>>
  /\ generated = IdleGenerated
  /\ build = IdleBuild
  /\ InitPage
  /\ loaded = TRUE
  /\ \E correctValue \in PopValues, countryName \in PopNames :
       pop = [pc |-> "pick", correctValue |-> correctValue,
              uniqueCandidates |-> PopulationCandidates(countries, countryName),
              distractors |-> <<>>, multiplierIndex |-> 0, result |-> <<>>]

\* lines 246-250: one pass of the first while loop
PopPick ==
  /\ pop.pc = "pick"
  /\ Len(pop.uniqueCandidates) > 0 /\ Len(pop.distractors) < 3
  /\ \E index \in 1..Len(pop.uniqueCandidates) :
       LET candidate == pop.uniqueCandidates[index] IN
       pop' = [pop EXCEPT !.uniqueCandidates = RemoveAt(@, index),
                          !.distractors = IF candidate # pop.correctValue
                                          THEN Append(@, candidate) ELSE @]
  /\ UNCHANGED <<engineVars, generated, build, controllerVars, dom>>

\* lines 246, 251-252: the first loop ends
PopEndPick ==
  /\ pop.pc = "pick"
  /\ ~(Len(pop.uniqueCandidates) > 0 /\ Len(pop.distractors) < 3)
  /\ pop' = [pop EXCEPT !.pc = "fill", !.multiplierIndex = 0]
  /\ UNCHANGED <<engineVars, generated, build, controllerVars, dom>>

\* lines 253-258: one pass of the second while loop
PopFill ==
  /\ pop.pc = "fill"
  /\ Len(pop.distractors) < 3
  /\ LET candidate == SyntheticCandidate(pop.correctValue, pop.multiplierIndex) IN
     pop' = [pop EXCEPT !.multiplierIndex = (@ + 1) % Len(fallbackMultipliers),
                        !.distractors = IF ~Includes(<<pop.correctValue>> \o pop.distractors, candidate)
                                        THEN Append(@, candidate) ELSE @]
  /\ UNCHANGED <<engineVars, generated, build, controllerVars, dom>>

\* lines 253, 259: the second loop ends and the function returns
PopReturn ==
  /\ pop.pc = "fill"
  /\ ~(Len(pop.distractors) < 3)
  /\ pop' = [pop EXCEPT !.pc = "done", !.result = <<pop.correctValue>> \o pop.distractors]
  /\ UNCHANGED <<engineVars, generated, build, controllerVars, dom>>

NextPop == PopPick \/ PopEndPick \/ PopFill \/ PopReturn

\* The JavaScript engine runs a started call on: a loop pass that can be taken is taken.
SpecPop == InitPop /\ [][NextPop]_vars /\ WF_vars(NextPop)

(***************************************************************************)
(* The page: QuizEngine.init, the controller's handlers of the view's      *)
(* events, and the callback beginQuiz schedules.                           *)
(***************************************************************************)
\* callbacks that may be pending at once before beginQuiz is held back
MaxTimers == 2

\* The bug of clearing the questions and not hasAnswered.
ResetQuizKeepAnswered(g) ==
  [g EXCEPT !.questions = <<>>, !.currentQuestionIndex = 0,
            !.totalQuestions = 0, !.isComplete = FALSE]

ResetQuiz(g) ==
  [g EXCEPT !.questions = <<>>, !.currentQuestionIndex = 0, !.hasAnswered = FALSE,
            !.totalQuestions = 0, !.isComplete = FALSE]

difficultyOrder == <<"easy", "medium", "hard">>

IndexOf(order, v) == FindIndex([i \in 1..Len(order) |-> [value |-> order[i]]], v)

\* QuizEngine.init: the data arrives, the pool is drawn, the view is told
EngineInit(world) ==
  /\ ~loaded /\ ~hung
  /\ loaded' = TRUE
  /\ countries' = world
  /\ \E r \in PoolTable[world][difficulty] :
       /\ countryPool' = r.pool
       /\ lastPopulate' = [ran |-> TRUE, candidates |-> r.candidates]
       /\ events' = InitEvents(world, r.pool)
       /\ dom' = updateStatusMessage(
                   updateLeftPaneCountryList(dom, r.pool),
                   IF Len(world) > 0
                   THEN "Select a quiz type, then choose a country to get started."
                   ELSE "Unable to load country data. Refresh and try again.")
  /\ UNCHANGED <<difficulty, callVars, gameState, correctStreak, wrongStreak, timers, hung>>

\* the listener of 'view:mode-selected'
OnModeSelected(type) ==
  /\ type \in Types
  /\ gameState' = [ResetQuiz(gameState) EXCEPT !.currentGameType = type,
                                               !.selectedCountryName = Null]
  /\ dom' = resetRightPaneBeforeQuiz(updateStatusMessage(dom, "quiz selected. Choose a country."))
  /\ UNCHANGED <<engineVars, callVars, correctStreak, wrongStreak, timers, hung, loaded>>

\* the listener of 'view:difficulty-changed'
OnDifficultyChanged(level) ==
  /\ level # Null /\ Truthy(level)
  /\ setDifficulty(level, FALSE, updateStatusMessage(dom, "Difficulty set. Choose a country."))
  /\ UNCHANGED <<countries, callVars, controllerVars>>

\* the listener of 'view:country-selected'
OnCountrySelected(name) ==
  /\ IF gameState.currentGameType = Null
     THEN /\ dom' = updateStatusMessage(dom, "Select a quiz type first to unlock the countries.")
          /\ UNCHANGED gameState
     ELSE IF name = Waiting
     THEN /\ dom' = updateStatusMessage(dom, "Country data is still loading. Please try again in a moment.")
          /\ UNCHANGED gameState
     ELSE /\ gameState' = [ResetQuiz(gameState) EXCEPT !.selectedCountryName = name]
          /\ dom' = setupRightPaneGameArea(updateStatusMessage(dom, "You selected a country. Click Start Quiz to begin."))
  /\ UNCHANGED <<engineVars, callVars, correctStreak, wrongStreak, timers, hung, loaded>>

\* The bug of scheduling the questions whatever is selected.
beginQuizUnguarded ==
  /\ timers < MaxTimers
  /\ dom' = hideQuizRowsUntilStart(toggleAnswerButtons(disableGameControls(dom), TRUE))
  /\ timers' = timers + 1
  /\ UNCHANGED <<engineVars, gameState, correctStreak, wrongStreak>>

\* beginQuiz, up to the setTimeout
beginQuiz ==
  /\ IF gameState.currentGameType = Null
     THEN /\ dom' = restoreStartButton(updateStatusMessage(dom, "Select a quiz type first."))
          /\ UNCHANGED timers
     ELSE IF gameState.selectedCountryName = Null
     THEN /\ dom' = updateStatusMessage(dom, "Choose a country from the left pane before starting.")
          /\ UNCHANGED timers
     ELSE IF Len(countryPool) = 0
     THEN /\ dom' = updateStatusMessage(dom, "Still gathering country data. Please try again in a moment.")
          /\ UNCHANGED timers
     ELSE /\ timers < MaxTimers
          /\ dom' = hideQuizRowsUntilStart(toggleAnswerButtons(disableGameControls(dom), TRUE))
          /\ timers' = timers + 1
  /\ UNCHANGED <<engineVars, gameState, correctStreak, wrongStreak>>

\* The bug of keeping the selected country.
handlePlayAgainKeepCountry ==
  /\ populateCountryPool(difficulty,
                         [resetRightPaneBeforeQuiz(dom)
                            EXCEPT !.status = "New countries loaded.",
                                   !.startText = "Start Quiz", !.startHidden = TRUE],
                         <<>>)
  /\ gameState' = [gameState EXCEPT !.questions = <<>>,
                                    !.currentQuestionIndex = 0, !.hasAnswered = FALSE,
                                    !.isComplete = FALSE]
  /\ UNCHANGED <<countries, difficulty, correctStreak, wrongStreak, timers>>

handlePlayAgain ==
  /\ populateCountryPool(difficulty,
                         [resetRightPaneBeforeQuiz(dom)
                            EXCEPT !.status = "New countries loaded.",
                                   !.startText = "Start Quiz", !.startHidden = TRUE],
                         <<>>)
  /\ gameState' = [gameState EXCEPT !.selectedCountryName = Null, !.questions = <<>>,
                                    !.currentQuestionIndex = 0, !.hasAnswered = FALSE,
                                    !.isComplete = FALSE]
  /\ UNCHANGED <<countries, difficulty, correctStreak, wrongStreak, timers>>

\* the listener of 'view:start-quiz'
OnStartQuiz ==
  /\ IF gameState.isComplete THEN handlePlayAgain ELSE beginQuiz
  /\ UNCHANGED <<callVars, hung, loaded>>

\* the callback of beginQuiz's setTimeout
TimerCallback ==
  /\ timers > 0 /\ ~hung
  /\ generateQuestionSet(Engine, gameState.currentGameType, QuizLength, "beginQuiz")
  /\ UNCHANGED <<engineVars, callVars, correctStreak, wrongStreak, loaded>>

\* The bug of going straight to the last level.
upgradeDifficultyToTop(d) ==
  LET idx == IndexOf(difficultyOrder, difficulty) IN
  IF idx = -1 \/ idx >= Len(difficultyOrder) - 1
  THEN [level |-> difficulty, events |-> events, dom |-> d]
  ELSE LET next == difficultyOrder[Len(difficultyOrder)] IN
       [level |-> next, events |-> <<QuizDifficultyChanged(next)>>,
        dom |-> updateStatusMessage(SyncSelector(d, next), "Difficulty increased.")]

\* upgradeDifficulty / downgradeDifficulty, which call setDifficulty(next, false)
\* with a next of difficultyOrder: the level, the engine's events and the page
\* after them
upgradeDifficulty(d) ==
  LET idx == IndexOf(difficultyOrder, difficulty) IN
  IF idx = -1 \/ idx >= Len(difficultyOrder) - 1
  THEN [level |-> difficulty, events |-> events, dom |-> d]
  ELSE LET next == difficultyOrder[idx + 2] IN
       [level |-> next, events |-> <<QuizDifficultyChanged(next)>>,
        dom |-> updateStatusMessage(SyncSelector(d, next), "Difficulty increased.")]

downgradeDifficulty(d) ==
  LET idx == IndexOf(difficultyOrder, difficulty) IN
  IF idx <= 0
  THEN [level |-> difficulty, events |-> events, dom |-> d]
  ELSE LET next == difficultyOrder[idx] IN
       [level |-> next, events |-> <<QuizDifficultyChanged(next)>>,
        dom |-> updateStatusMessage(SyncSelector(d, next), "Difficulty decreased.")]

RevealNext(d) == [d EXCEPT !.nextHidden = FALSE, !.nextDisabled = FALSE]

\* The bug of scoring an answered question again.
AnswerIgnoredUnlessAnswered ==
  \/ gameState.isComplete
  \/ gameState.currentQuestionIndex >= Len(gameState.questions)

\* the early returns of the listener of 'view:answer-selected'
AnswerIgnored ==
  \/ gameState.isComplete
  \/ gameState.currentQuestionIndex >= Len(gameState.questions)
  \/ gameState.hasAnswered

\* The bug of a wrong answer that keeps the streak of correct ones.
WrongAnswerKeepsCorrectStreak(d) ==
  LET down == IF wrongStreak + 1 >= 2
              THEN downgradeDifficulty(d)
              ELSE [level |-> difficulty, events |-> events, dom |-> d]
  IN [wrongStreak |-> IF wrongStreak + 1 >= 2 THEN 0 ELSE wrongStreak + 1,
      correctStreak |-> correctStreak,
      level |-> down.level, events |-> down.events, dom |-> down.dom]

\* its branch of a wrong answer, d the page with the wrong answer counted: the
\* streaks, the level, the engine's events and the page after it
WrongAnswer(d) ==
  LET down == IF wrongStreak + 1 >= 2
              THEN downgradeDifficulty(d)
              ELSE [level |-> difficulty, events |-> events, dom |-> d]
  IN [wrongStreak |-> IF wrongStreak + 1 >= 2 THEN 0 ELSE wrongStreak + 1,
      correctStreak |-> 0,
      level |-> down.level, events |-> down.events, dom |-> down.dom]

\* its branch of a correct answer, d the page with the score counted
CorrectAnswer(d) ==
  LET up == IF correctStreak + 1 >= 3
            THEN upgradeDifficulty(d)
            ELSE [level |-> difficulty, events |-> events, dom |-> d]
  IN [correctStreak |-> IF correctStreak + 1 >= 3 THEN 0 ELSE correctStreak + 1,
      wrongStreak |-> 0,
      level |-> up.level, events |-> up.events, dom |-> up.dom]

\* the listener of 'view:answer-selected'
OnAnswerSelected(selectedIndex) ==
  /\ IF AnswerIgnored
     THEN UNCHANGED <<gameState, dom, difficulty, events, correctStreak, wrongStreak>>
     ELSE LET q == gameState.questions[gameState.currentQuestionIndex + 1]
              d == toggleAnswerButtons(dom, TRUE)
              after == IF selectedIndex # q.correctIndex
                       THEN WrongAnswer(incrementWrongAnswer(d))
                       ELSE CorrectAnswer(incrementScore(d))
          IN /\ gameState' = [gameState EXCEPT !.hasAnswered = TRUE]
             /\ wrongStreak' = after.wrongStreak
             /\ correctStreak' = after.correctStreak
             /\ difficulty' = after.level
             /\ events' = after.events
             /\ dom' = RevealNext(after.dom)
  /\ UNCHANGED <<countries, countryPool, lastPopulate, callVars, timers, hung, loaded>>

\* The bug of ending a quiz without enableGameControls.
finalizeQuizKeepControls(g, d) ==
  [gameState |-> [g EXCEPT !.isComplete = TRUE],
   dom |-> updateStatusMessage(
             [RevealNext(toggleAnswerButtons(d, TRUE))
                EXCEPT !.startHidden = FALSE, !.startDisabled = FALSE, !.startText = "Play Again"],
             "Quiz complete! Pick a new category or play again to improve your score.")]

\* finalizeQuiz: the game state and the page after it
finalizeQuiz(g, d) ==
  [gameState |-> [g EXCEPT !.isComplete = TRUE],
   dom |-> updateStatusMessage(
             enableGameControls(
               [RevealNext(toggleAnswerButtons(d, TRUE))
                  EXCEPT !.startHidden = FALSE, !.startDisabled = FALSE, !.startText = "Play Again"]),
             "Quiz complete! Pick a new category or play again to improve your score.")]

\* The bug of advancing without an answer.
OnNextQuestionUnanswered ==
  /\ IF gameState.isComplete
     THEN beginQuiz
     ELSE /\ UNCHANGED <<engineVars, correctStreak, wrongStreak, timers>>
          /\ LET g == [gameState EXCEPT !.currentQuestionIndex = @ + 1] IN
             IF g.currentQuestionIndex >= g.totalQuestions
             THEN LET end == finalizeQuiz(g, dom) IN
                  /\ gameState' = end.gameState
                  /\ dom' = end.dom
             ELSE /\ gameState' = [g EXCEPT !.hasAnswered = FALSE]
                  /\ dom' = renderQuestion(toggleAnswerButtons(dom, FALSE))
  /\ UNCHANGED <<callVars, hung, loaded>>

\* the listener of 'view:next-question'
OnNextQuestion ==
  /\ IF gameState.isComplete
     THEN beginQuiz
     ELSE /\ UNCHANGED <<engineVars, correctStreak, wrongStreak, timers>>
          /\ IF ~gameState.hasAnswered
             THEN UNCHANGED <<gameState, dom>>
             ELSE LET g == [gameState EXCEPT !.currentQuestionIndex = @ + 1] IN
                  IF g.currentQuestionIndex >= g.totalQuestions
                  THEN LET end == finalizeQuiz(g, dom) IN
                       /\ gameState' = end.gameState
                       /\ dom' = end.dom
                  ELSE /\ gameState' = [g EXCEPT !.hasAnswered = FALSE]
                       /\ dom' = renderQuestion(toggleAnswerButtons(dom, FALSE))
  /\ UNCHANGED <<callVars, hung, loaded>>

(***************************************************************************)
(* The view raises an event when the player uses a control that is enabled *)
(* and shown.                                                              *)
(***************************************************************************)
ModeSelected(type) == ~dom.modeDisabled /\ ~hung /\ OnModeSelected(type)

DifficultyChanged(level) == ~dom.selectorDisabled /\ ~hung /\ OnDifficultyChanged(level)

CountrySelected(name) == ~dom.countryDisabled /\ ~hung /\ OnCountrySelected(name)

StartQuiz == StartClickable /\ ~hung /\ OnStartQuiz

AnswerSelected(selectedIndex) == AnswersClickable /\ ~hung /\ OnAnswerSelected(selectedIndex)

NextQuestion == NextClickable /\ ~hung /\ OnNextQuestion

Init ==
  /\ countries = <<>>
  /\ countryPool = <<>>
  /\ difficulty = "easy"
  /\ lastPopulate = NeverPopulated
  /\ events = <<>>
  /\ generated = IdleGenerated
  /\ pop = IdlePop
  /\ build = IdleBuild
  /\ InitPage
  /\ loaded = FALSE

Next ==
  \/ \E world \in PageWorlds : EngineInit(world)
  \/ \E type \in Types : ModeSelected(type)
  \/ \E level \in Levels : DifficultyChanged(level)
  \/ \E i \in 1..ListItems : CountrySelected(dom.itemTexts[i])
  \/ StartQuiz
  \/ TimerCallback
  \/ \E selectedIndex \in 0..3 : AnswerSelected(selectedIndex)
  \/ NextQuestion

Spec == Init /\ [][Next]_vars

\* The player keeps answering the current question and pressing next.
Playing ==
  /\ WF_vars(\E selectedIndex \in 0..3 : AnswerSelected(selectedIndex))
  /\ WF_vars(NextQuestion)

SpecPlaying == Spec /\ Playing


(***************************************************************************)
(* The listeners by themselves: a view event dispatched on document       *)
(* whatever the state of the controls (document.dispatchEvent is open to  *)
(* any script of the page).                                                *)
(***************************************************************************)
ModeSelectedEvent(type) == ~hung /\ OnModeSelected(type)

DifficultyChangedEvent(level) == ~hung /\ OnDifficultyChanged(level)

CountrySelectedEvent(name) == ~hung /\ OnCountrySelected(name)

StartQuizEvent == ~hung /\ OnStartQuiz

AnswerSelectedEvent(selectedIndex) == ~hung /\ OnAnswerSelected(selectedIndex)

NextQuestionEvent == ~hung /\ OnNextQuestion

\* a country name that is not the text of a list item
Elsewhere == "Atlantis"

NextEvents ==
  \/ \E world \in EventWorlds : EngineInit(world)
  \/ \E type \in Types : ModeSelectedEvent(type)
  \/ \E level \in Levels : DifficultyChangedEvent(level)
  \/ \E name \in Range(dom.itemTexts) \cup {Elsewhere} : CountrySelectedEvent(name)
  \/ StartQuizEvent
  \/ TimerCallback
  \/ \E selectedIndex \in 0..3 : AnswerSelectedEvent(selectedIndex)
  \/ NextQuestionEvent

SpecEvents == Init /\ [][NextEvents]_vars
(***************************************************************************)
(* Properties of question generation.                                      *)
(***************************************************************************)
Returned == generated.status = "returned"

\* the value of the answer of a question of type about country c
AnswerValue(type, c) ==
  CASE type = "population" -> Num(c.population)
    [] type = "currency"   -> Str(c.currencies[1])
    [] type = "languages"  -> Str(c.languages[1])

\* the countries a question can be about
Asked(q) == {c \in Range(countries) : c.name = q.country /\ hasDataForType(c, q.type)}

WellFormed(q) ==
  /\ Len(q.options) = 4
  /\ \A i, j \in 1..4 : i # j => q.options[i].value # q.options[j].value
  /\ q.correctIndex \in 0..3
  /\ \E c \in Asked(q) :
       \A i \in 1..4 : (q.options[i].value = AnswerValue(q.type, c)) <=> (i = q.correctIndex + 1)

\* C1: every question generateQuestionSet returns has exactly four options of
\* pairwise distinct values, a correctIndex in 0..3, and the correct answer's
\* value at correctIndex and at no other option.
C1_QuestionsWellFormed ==
  Returned => \A n \in 1..Len(generated.questions) : WellFormed(generated.questions[n])

\* a returned set of several population questions, one of them about a country
\* whose population another country shares
C1_Witness ==
  /\ Returned
  /\ generated.type = "population"
  /\ Len(generated.questions) >= 2
  /\ countries = TwinWorld

\* the asked country's own list of currencies or languages
OwnItems(q, c) == Range(Items(c, IF q.type = "currency" THEN "currencies" ELSE "languages"))

\* C2: in a currency or languages question no distractor, taken from other
\* countries or from the built-in list, is one of the asked country's own
\* currencies or languages.
C2_NoOwnItemAmongDistractors ==
  Returned =>
    \A n \in 1..Len(generated.questions) :
      LET q == generated.questions[n] IN
      q.type \in {"currency", "languages"} =>
        \A c \in Asked(q) :
          q.options[q.correctIndex + 1].value = AnswerValue(q.type, c) =>
            \A i \in 1..Len(q.options) :
              i # q.correctIndex + 1 => q.options[i].value.s \notin OwnItems(q, c)

\* C3: a returned question set holds no two questions about the same country name.
C3_NoCountryTwice ==
  Returned =>
    \A m, n \in 1..Len(generated.questions) :
      m # n => generated.questions[m].country # generated.questions[n].country

(***************************************************************************)
(* Properties of generatePopulationOptions.                                *)
(***************************************************************************)
\* C4: generatePopulationOptions terminates for every positive correctValue and
\* every pool, and returns the correct value followed by three distractors,
\* distinct from each other and from the correct value.
C4_PopulationOptionsTerminate ==
  <>(/\ pop.pc = "done"
     /\ Len(pop.result) = 4
     /\ pop.result[1] = pop.correctValue
     /\ Cardinality(Range(pop.result)) = 4)

(***************************************************************************)
(* Properties of the currency and languages builders.                      *)
(***************************************************************************)
BuildKey == IF build.type = "currency" THEN "currencies" ELSE "languages"
BuildFallback == IF build.type = "currency" THEN fallbackCurrencies ELSE fallbackLanguages

\* the real candidates: the values of the option pool's other countries, the
\* correct answer left out
RealCandidates ==
  Range(collectUniqueValues(build.optionPool, BuildKey, build.country.name))
    \ {build.country[BuildKey][1]}

Distractors(q) ==
  {q.options[i].value.s : i \in 1..Len(q.options)} \ {q.correctAnswerLabel.s}

\* C5: for a country with data for the type buildCurrencyQuestion and
\* buildLanguagesQuestion return a question whatever the option pool; its three
\* distractors are real candidates when the pool has three, and otherwise all
\* the real candidates and values of the built-in list.
C5_LabelBuildersNeverNull ==
  (/\ build.status # "idle"
   /\ build.type \in {"currency", "languages"}
   /\ hasDataForType(build.country, build.type)) =>
     LET q == build.question IN
     /\ build.status = "returned"
     /\ q # NullQ
     /\ q.country = build.country.name
     /\ Cardinality(Distractors(q)) = 3
     /\ IF Cardinality(RealCandidates) >= 3
        THEN Distractors(q) \subseteq RealCandidates
        ELSE /\ RealCandidates \subseteq Distractors(q)
             /\ Distractors(q) \ RealCandidates \subseteq Range(BuildFallback)

\* a languages question built with an empty option pool
C5_Witness ==
  /\ build.status = "returned"
  /\ build.type = "languages"
  /\ build.optionPool = <<>>
  /\ build.question # NullQ

(***************************************************************************)
(* Properties of populateCountryPool.                                      *)
(***************************************************************************)
PoolCodes == {countryPool[i].code : i \in 1..Len(countryPool)}

\* C6: after populateCountryPool has run the pool holds min(sample size, number
\* of candidates) entries, each a country of countries and none twice; with no
\* countries the pool is empty.
C6_PoolIsSampleWithoutReplacement ==
  lastPopulate.ran =>
    /\ Len(countryPool) = Min(SampleSize, Cardinality(lastPopulate.candidates))
    /\ \A i \in 1..Len(countryPool) : countryPool[i] \in Range(countries)
    /\ Cardinality(PoolCodes) = Len(countryPool)
    /\ lastPopulate.candidates \subseteq Codes(countries)
    /\ (Len(countries) = 0 => countryPool = <<>>)

\* a pool drawn from more candidates than the sample size
C6_Witness ==
  /\ lastPopulate.ran
  /\ Cardinality(lastPopulate.candidates) > SampleSize
  /\ Len(countryPool) = SampleSize

\* the countries of strictly greater popularity than c
MorePopular(c) == {i \in 1..Len(countries) : countries[i].popularity > c.popularity}

\* C7: a run of populateCountryPool at difficulty 'easy' places only countries
\* among the most popular ones (fewer than the easy setting's count are strictly
\* more popular); at 'medium' and 'hard' the pool comes from a candidate list of
\* at most the setting's count.
C7_PoolRespectsDifficulty ==
  [][(countryPool' # countryPool \/ lastPopulate' # lastPopulate) =>
       /\ difficulty' = "easy" =>
            \A i \in 1..Len(countryPool') :
              Cardinality(MorePopular(countryPool'[i])) <= difficultySettings.easy.countries - 1
       /\ difficulty' \in Levels =>
            Cardinality(lastPopulate'.candidates) <= difficultySettings[difficulty'].countries
       /\ {countryPool'[i].code : i \in 1..Len(countryPool')} \subseteq lastPopulate'.candidates
    ]_vars

\* an easy pool of a data set with more countries than the easy setting takes
C7_Witness ==
  /\ lastPopulate.ran
  /\ difficulty = "easy"
  /\ Len(countries) > difficultySettings.easy.countries
  /\ Len(countryPool) = SampleSize
  /\ \A i \in 1..Len(countryPool) :
       Cardinality(MorePopular(countryPool[i])) < difficultySettings.easy.countries

(***************************************************************************)
(* Properties of the page.                                                 *)
(***************************************************************************)
\* from the moment beginQuiz passes its guards until finalizeQuiz
QuizInProgress ==
  \/ timers > 0
  \/ Len(gameState.questions) > 0 /\ ~gameState.isComplete

ControlsDisabled == dom.selectorDisabled /\ dom.modeDisabled /\ dom.countryDisabled

ControlsEnabled == ~dom.selectorDisabled /\ ~dom.modeDisabled /\ ~dom.countryDisabled

\* C8: while a quiz is in progress the difficulty selector, the mode buttons and
\* the country items are disabled, and no step taken during a quiz changes
\* currentGameType or selectedCountryName.
C8_ControlsLockedDuringQuiz ==
  /\ [](QuizInProgress => ControlsDisabled)
  /\ [][QuizInProgress =>
          /\ gameState'.currentGameType = gameState.currentGameType
          /\ gameState'.selectedCountryName = gameState.selectedCountryName]_vars

\* the second question of a quiz, answered
C8_Witness ==
  /\ QuizInProgress
  /\ timers = 0
  /\ gameState.currentQuestionIndex = 1
  /\ gameState.hasAnswered

\* the questions of a quiz are loaded and the quiz is not complete
QuizBegun == timers = 0 /\ Len(gameState.questions) > 0 /\ ~gameState.isComplete

QuizFinished ==
  /\ gameState.isComplete
  /\ gameState.currentQuestionIndex = gameState.totalQuestions
  /\ ControlsEnabled
  /\ StartClickable

\* C9: when the player keeps answering and pressing next, every quiz that has
\* begun is eventually complete, all its questions passed, with the difficulty
\* selector, the mode buttons, the country items and the start button enabled.
C9_QuizEventuallyFinished == QuizBegun ~> QuizFinished

\* a finished quiz of more than one question
C9_Witness ==
  /\ QuizFinished
  /\ gameState.totalQuestions = QuizLength
  /\ dom.score + dom.incorrect = QuizLength

FailureMessages ==
  {"Unable to create questions right now. Please try again.",
   "Not enough data to start this quiz. Try another category."}

\* C10: when beginQuiz's callback cannot start a quiz it tells the player to try
\* again or try another category, and leaves the start button restored and the
\* mode buttons, the difficulty selector and the country items enabled.
C10_FailedStartRestoresControls ==
  [][(timers' = timers - 1 /\ Len(gameState'.questions) = 0) =>
       /\ dom'.status \in FailureMessages
       /\ StartClickable'
       /\ ControlsEnabled']_vars


(***************************************************************************)
(* Properties of setDifficulty.                                            *)
(***************************************************************************)
\* C11: setDifficulty(level, false) with one of the three levels sets difficulty
\* to level, leaves countryPool as it was and dispatches quiz:difficulty-changed
\* with the level and nothing else; setDifficulty(level, true) draws a new pool at
\* the level and dispatches quiz:pool-updated with it, then
\* quiz:difficulty-changed with the level.
C11_SetDifficultyFrame ==
  [][\A level \in Levels :
       /\ CallSetDifficulty(level, FALSE) =>
            /\ difficulty' = level
            /\ countryPool' = countryPool
            /\ lastPopulate' = lastPopulate
            /\ events' = <<QuizDifficultyChanged(level)>>
       /\ CallSetDifficulty(level, TRUE) =>
            /\ difficulty' = level
            /\ lastPopulate'.ran
            /\ \E r \in PoolTable[countries][level] : countryPool' = r.pool
            /\ events' = <<QuizPoolUpdated(countryPool'), QuizDifficultyChanged(level)>>
    ]_vars

\* the difficulty set to 'hard' without a reload, the pool of the last
\* populateCountryPool still in place
C11_Witness ==
  /\ difficulty = "hard"
  /\ events = <<QuizDifficultyChanged("hard")>>
  /\ lastPopulate.ran
  /\ Len(countryPool) = SampleSize
  /\ dom.selectorValue = "hard"

\* C12: setDifficulty with a missing level or a level other than 'easy',
\* 'medium', 'hard' changes neither difficulty nor countryPool and dispatches no
\* event, and difficulty is one of the three levels in every state.
C12_InvalidLevelIgnored ==
  /\ [][\A level \in LevelArguments \ Levels : \A reload \in BOOLEAN :
          CallSetDifficulty(level, reload) =>
            /\ difficulty' = difficulty
            /\ countryPool' = countryPool
            /\ events' = <<>>]_vars
  /\ [](difficulty \in Levels)

(***************************************************************************)
(* Properties of the controller's listeners, given any view event.         *)
(***************************************************************************)
\* the answers counted on the page
Scored == dom.score + dom.incorrect

\* questions are loaded and the quiz is not complete
QuizRunning == Len(gameState.questions) > 0 /\ ~gameState.isComplete

C14_NextNeedsAnAnswer ==
  /\ [][(~gameState.isComplete /\ ~gameState.hasAnswered /\ NextQuestionEvent) =>
          gameState' = gameState]_vars
  /\ [][gameState'.currentQuestionIndex # gameState.currentQuestionIndex =>
          \/ gameState'.currentQuestionIndex = 0
          \/ /\ gameState'.currentQuestionIndex = gameState.currentQuestionIndex + 1
             /\ gameState.hasAnswered]_vars

\* a running quiz, its current question not answered, the next button hidden
C14_Witness ==
  /\ QuizRunning
  /\ ~gameState.hasAnswered
  /\ gameState.currentQuestionIndex < gameState.totalQuestions
  /\ dom.nextHidden

\* one of the three things beginQuiz asks for is missing
Missing ==
  \/ gameState.currentGameType = Null
  \/ gameState.selectedCountryName = Null
  \/ Len(countryPool) = 0

DisableFlags ==
  {"selectorDisabled", "modeDisabled", "countryDisabled", "startDisabled",
   "answersDisabled", "nextDisabled"}

\* C16, as stated: a view:start-quiz event that finds no game type, no country
\* or an empty countryPool schedules no callback, disables no control and leaves
\* gameState as it was; a callback is scheduled only when all three are there.
C16_StartNeedsAllThree ==
  /\ [][(Missing /\ StartQuizEvent) =>
          /\ timers' = timers
          /\ gameState' = gameState
          /\ \A flag \in DisableFlags : dom'[flag] => dom[flag]]_vars
  /\ [][timers' > timers => ~Missing]_vars

\* C16, for a quiz that is not complete: a view:start-quiz event that finds the
\* quiz not complete and no game type, no country or an empty countryPool
\* schedules no callback, disables no control and leaves gameState as it was; a
\* callback is scheduled only when all three are there.  (On a complete quiz the
\* event is a Play Again whatever is selected.)
C16_StartNeedsTypeCountryPool ==
  /\ [][(Missing /\ ~gameState.isComplete /\ StartQuizEvent) =>
          /\ timers' = timers
          /\ gameState' = gameState
          /\ \A flag \in DisableFlags : dom'[flag] => dom[flag]]_vars
  /\ [][timers' > timers => ~Missing]_vars

\* a start refused for its empty countryPool, a game type and a country selected
C16_Witness ==
  /\ gameState.currentGameType # Null
  /\ gameState.selectedCountryName # Null
  /\ Len(countryPool) = 0
  /\ timers = 0
  /\ dom.status = "Still gathering country data. Please try again in a moment."

(***************************************************************************)
(* Properties of the page whose events come from enabled controls.         *)
(***************************************************************************)
\* a step that accepts an answer
Accepted == ~gameState.hasAnswered /\ gameState'.hasAnswered

\* C15: currentQuestionIndex stays within 0..totalQuestions, hasAnswered is true
\* only with questions loaded, a running quiz has totalQuestions questions and
\* its index is below that, and an answer is accepted only for a question of
\* the list.
C15_IndexWithinQuestions ==
  /\ [](/\ 0 <= gameState.currentQuestionIndex
        /\ gameState.currentQuestionIndex <= gameState.totalQuestions
        /\ gameState.hasAnswered => Len(gameState.questions) > 0
        /\ QuizRunning =>
             /\ gameState.totalQuestions = Len(gameState.questions)
             /\ gameState.currentQuestionIndex < gameState.totalQuestions)
  /\ [][Accepted =>
          gameState.currentQuestionIndex + 1 \in 1..Len(gameState.questions)]_vars

\* the last question of a quiz of more than one question, answered
C15_Witness ==
  /\ QuizRunning
  /\ gameState.totalQuestions = QuizLength
  /\ gameState.currentQuestionIndex = QuizLength - 1
  /\ gameState.hasAnswered

\* C17: at most one callback of beginQuiz is pending; while one is pending a
\* game type and a country are selected and no quiz is running; a running quiz
\* has a selected country and only questions of the selected game type.
C17_OneCallbackAtATime ==
  /\ timers <= 1
  /\ timers > 0 =>
       /\ gameState.currentGameType # Null
       /\ gameState.selectedCountryName # Null
       /\ ~QuizRunning
  /\ QuizRunning =>
       /\ gameState.selectedCountryName # Null
       /\ \A i \in 1..Len(gameState.questions) :
            gameState.questions[i].type = gameState.currentGameType

\* a callback pending after the restart of a complete quiz
C17_Witness ==
  /\ timers = 1
  /\ gameState.isComplete
  /\ gameState.selectedCountryName # Null
  /\ ControlsDisabled

\* C18: a view:start-quiz event on a complete quiz draws a new countryPool at
\* the current difficulty and dispatches it, clears selectedCountryName and the
\* questions, sets isComplete to false and schedules no callback; with no
\* country selected no callback is pending and no quiz is running.
C18_PlayAgain ==
  /\ [][(gameState.isComplete /\ StartQuiz) =>
          /\ gameState'.selectedCountryName = Null
          /\ gameState'.questions = <<>>
          /\ ~gameState'.isComplete
          /\ timers' = timers
          /\ \E r \in PoolTable[countries][difficulty] : countryPool' = r.pool
          /\ events' = <<QuizPoolUpdated(countryPool')>>]_vars
  /\ [](gameState.selectedCountryName = Null => timers = 0 /\ ~QuizRunning)

\* the page after Play Again: the quiz played still counted in totalQuestions
C18_Witness ==
  /\ dom.status = "New countries loaded."
  /\ gameState.selectedCountryName = Null
  /\ gameState.totalQuestions > 0
  /\ Len(gameState.questions) = 0
  /\ ~gameState.isComplete

\* the level one step above and one step below, within difficultyOrder
Above(level) == IF level = "easy" THEN "medium" ELSE "hard"
Below(level) == IF level = "hard" THEN "medium" ELSE "easy"

\* C19: an accepted correct answer changes the difficulty only when it is the
\* third in a row, to the level one step above (none above 'hard'); an accepted
\* wrong answer only when it is the second in a row, to the level one step below
\* (none below 'easy').
C19_AdaptiveDifficultyOneStep ==
  [][/\ (Accepted /\ dom'.score = dom.score + 1) =>
          difficulty' = IF correctStreak = 2 THEN Above(difficulty) ELSE difficulty
     /\ (Accepted /\ dom'.incorrect = dom.incorrect + 1) =>
          difficulty' = IF wrongStreak = 1 THEN Below(difficulty) ELSE difficulty]_vars

\* the difficulty raised from 'easy' by a third correct answer in a row
C19_Witness ==
  /\ difficulty = "medium"
  /\ dom.status = "Difficulty increased."
  /\ correctStreak = 0
  /\ gameState.hasAnswered
  /\ events = <<QuizDifficultyChanged("medium")>>

\* C20: correctStreak is 0, 1 or 2, wrongStreak is 0 or 1, one of them is 0, and
\* only an accepted answer changes them: beginning, restarting and replaying a
\* quiz leave them as they are.
C20_StreakBounds ==
  /\ [](/\ correctStreak \in 0..2
        /\ wrongStreak \in 0..1
        /\ correctStreak = 0 \/ wrongStreak = 0)
  /\ [][~Accepted => UNCHANGED <<correctStreak, wrongStreak>>]_vars

\* a quiz that begins with two correct answers in a row behind it
C20_Witness ==
  /\ QuizRunning
  /\ gameState.currentQuestionIndex = 0
  /\ ~gameState.hasAnswered
  /\ dom.score = 0
  /\ correctStreak = 2
====
